---- MODULE Spec2Model ----
(***************************************************************************)
(* Model of the logging facade of Stasky745/go-libs.                       *)
(*                                                                         *)
(* The repository holds four copies of the facade.  NewLogger, InitLogger, *)
(* GetLogger and the leveled functions are the same text in every copy;    *)
(* CheckErr differs:                                                       *)
(*   golog     src/golog/golog.go:112        printf style, DPanicf         *)
(*   log       src/log/log.go:115            recursive on a failed dump    *)
(*   part000   src/unnamed/part_000:126      rewrites the slice in place   *)
(*   logtest   src/golog/golog_test.go:249   builds a separate slice       *)
(***************************************************************************)
EXTENDS Integers, Sequences, FiniteSets, TLC

VARIABLES
    logger,     \* the package variable `logger`: NoLogger, "dev" or "prod"
    once,       \* the package variable `once`: [done, locked]
    call,       \* the facade call made last (its arguments)
    result,     \* how that call ended
    out,        \* the records that call wrote to the sink, in order
    dumped,     \* the responses that call handed to httputil.DumpResponse
    kvAfter,    \* the caller's slice as the caller sees it after that call
    pc,         \* per goroutine: where it stands in InitLogger
    arg,        \* per goroutine: the isDevelopment flag of its InitLogger call
    obs,        \* per goroutine: what its last read of `logger` returned
    hist,       \* history: NewLogger runs, whether one failed, first handle stored
    exited,     \* the process has exited
    stack       \* the call stack of log.go's recursive CheckErr

vars == <<logger, once, call, result, out, dumped, kvAfter, pc, arg, obs, hist,
          exited, stack>>

---------------------------------------------------------------------------
(* Bounds *)

\* longest context sequence a caller passes
MaxLen == 3
\* nesting depth at which the recursion of log.go's CheckErr is cut off
MaxStack == 3
\* number of goroutines
NumThreads == 2

---------------------------------------------------------------------------
(* Values of type interface{}: strings, errors, *http.Response, slices *)

Val(kind, s, ok, elems) == [kind |-> kind, s |-> s, ok |-> ok, elems |-> elems]
Str(s) == Val("string", s, FALSE, <<>>)
Err(text) == Val("error", text, FALSE, <<>>)
\* an *http.Response with the given status; ok: DumpResponse succeeds on it
Resp(status, ok) == Val("response", status, ok, <<>>)
\* a []interface{} passed as one value
Slice(elems) == Val("slice", "", FALSE, elems)
NilErr == Val("nil", "", FALSE, <<>>)

NoLogger == "nil"
Modes == {"dev", "prod"}

RespOK == Resp("200 OK", TRUE)
RespBad == Resp("500 Internal Server Error", FALSE)
AnError == Err("assert.AnError general error for testing")

Errs == {NilErr, AnError}
Msgs == {"request failed"}
Vals == {Str("key"), Str("value"), RespOK, RespBad}
KVSeqs == UNION {[1..n -> Vals] : n \in 0..MaxLen}

\* err.Error(), as %v prints it
ErrorText(err) == IF err.kind = "nil" THEN "<nil>" ELSE err.s

IsResponse(v) == v.kind = "response"

---------------------------------------------------------------------------
(* The zap logger NewLogger builds, and the SugaredLogger methods *)

\* zapcore's level order
LevelNum(level) ==
    CASE level = "debug" -> 0 - 1
      [] level = "info" -> 0
      [] level = "warn" -> 1
      [] level = "error" -> 2
      [] level = "dpanic" -> 3
      [] level = "panic" -> 4
      [] level = "fatal" -> 5

\* plausible slip: the production branch keeps the development level
ConfigLevel_NoProduction(lg) == "debug"

\* the level of the config NewLogger picks: NewDevelopmentConfig "Defaults to
\* DebugLevel", NewProductionConfig "Defaults to InfoLevel"
ConfigLevel(lg) == IF lg = "dev" THEN "debug" ELSE "info"

\* NewLogger: buildOK is whether config.Build() succeeds
NewLogger(isDevelopment, buildOK) ==
    IF buildOK
    THEN [logger |-> IF isDevelopment THEN "dev" ELSE "prod", err |-> NilErr]
    ELSE [logger |-> NoLogger, err |-> Err("config.Build failed")]

\* the core writes a record iff its level is at or above the config's level
LevelEnabled(lg, level) == LevelNum(level) >= LevelNum(ConfigLevel(lg))

\* what a call at this level does to control flow after logging: Panic panics,
\* Fatal exits, DPanic panics in a development logger only
AfterLog(lg, level) ==
    CASE level = "panic" -> "panic"
      [] level = "fatal" -> "exit"
      [] level = "dpanic" /\ lg = "dev" -> "panic"
      [] OTHER -> "run"

\* the state of a facade call in progress
\*   status   "run", or how the call ended
\*   recs     records written so far
\*   dumped   responses handed to DumpResponse so far
\*   kv       the keysAndValues slice (part000 rewrites it in place)
\*   new      the slice the call builds
Start(kv) == [status |-> "run", recs |-> <<>>, dumped |-> <<>>, kv |-> kv, new |-> <<>>]

\* GetLogger().sugaredLogger.<Level>w(msg, args...) and <Level>f: a nil handle
\* faults on the dereference; otherwise the record is written if its level is
\* enabled, and the level decides whether control returns
Log(lg, st, level, msg, args) ==
    IF st.status # "run" THEN st
    ELSE IF lg = NoLogger THEN [st EXCEPT !.status = "nilderef"]
    ELSE [st EXCEPT
            !.recs = IF LevelEnabled(lg, level)
                     THEN Append(@, [level |-> level, msg |-> msg, args |-> args])
                     ELSE @,
            !.status = AfterLog(lg, level)]

\* the function returns v unless the call already ended otherwise
Return(st, v) == IF st.status = "run" THEN [st EXCEPT !.status = v] ELSE st

\* httputil.DumpResponse(resp, true)
DumpResponse(resp) ==
    IF resp.ok
    THEN [dump |-> "HTTP/1.1 " \o resp.s, err |-> NilErr]
    ELSE [dump |-> "", err |-> Err("unexpected EOF")]

\* fmt.Sprintf("%s: %v", message, err)
Sprintf_sv(message, err) == message \o ": " \o ErrorText(err)

\* fmt.Sprintf("Error dumping response: %v", err)
Sprintf_dump(err) == "Error dumping response: " \o ErrorText(err)

MissingValue == Str("<missing value>")

\* the fields a SugaredLogger makes of its variadic arguments: argument 2i-1
\* is the key of argument 2i; a last argument without a partner is no field
Fields(args) == [i \in 1..(Len(args) \div 2) |-> <<args[2*i - 1], args[2*i]>>]

---------------------------------------------------------------------------
(* CheckErr, copy golog (src/golog/golog.go) *)

\* plausible slip: the nil check is lost
CheckErr_golog_NoNilCheck(lg, err, message, panic) ==
    Return(Log(lg, Start(<<>>), "error", Sprintf_sv(message, err), <<>>), "true")

CheckErr_golog(lg, err, message, panic) ==
    IF err = NilErr THEN Return(Start(<<>>), "false")
    ELSE LET s1 == IF panic
                   THEN Log(lg, Start(<<>>), "dpanic", Sprintf_sv(message, err), <<>>)
                   ELSE Start(<<>>)
             s2 == Log(lg, s1, "error", Sprintf_sv(message, err), <<>>)
         IN  Return(s2, "true")

---------------------------------------------------------------------------
(* CheckErr, copy logtest (src/golog/golog_test.go, second file in it) *)

\* "Ensure keysAndValues has an even number of elements"
Pad(kv) == IF Len(kv) % 2 # 0 THEN Append(kv, MissingValue) ELSE kv

\* the loop "for i := 0; i < len(keysAndValues); i += 2", i counted from 1
RECURSIVE Loop_logtest(_, _, _)
Loop_logtest(lg, st, i) ==
    IF i > Len(st.kv) \/ st.status # "run" THEN st
    ELSE LET key == st.kv[i]
             value == st.kv[i + 1]
         IN  IF IsResponse(value)
             THEN LET d == DumpResponse(value)
                      s1 == [st EXCEPT !.dumped = Append(@, value)]
                  IN  IF d.err # NilErr
                      THEN LET s2 == Log(lg, s1, "warn", "Failed to dump HTTP response",
                                         <<Str("error"), d.err>>)
                               s3 == IF s2.status = "run"
                                     THEN [s2 EXCEPT !.new = @ \o <<key, Str(Sprintf_dump(d.err))>>]
                                     ELSE s2
                           IN  Loop_logtest(lg, s3, i + 2)
                      ELSE Loop_logtest(lg, [s1 EXCEPT !.new = @ \o <<key, Str(d.dump)>>], i + 2)
             ELSE Loop_logtest(lg, [st EXCEPT !.new = @ \o <<key, value>>], i + 2)

CheckErr_logtest(lg, err, shouldPanic, message, kv) ==
    IF err = NilErr THEN Return(Start(kv), "false")
    ELSE LET s0 == [Start(Pad(kv)) EXCEPT !.new = <<Str("error"), err>>]
             s1 == Loop_logtest(lg, s0, 1)
             s2 == IF shouldPanic
                   THEN Log(lg, s1, "panic", message, s1.new)
                   ELSE Log(lg, s1, "error", message, s1.new)
         IN  Return(s2, "true")

---------------------------------------------------------------------------
(* CheckErr, copy part000 (src/unnamed/part_000) *)

\* the loop "for i := 1; i < len(keysAndValues); i += 2", i counted from 1
RECURSIVE Loop_part000(_, _, _)
Loop_part000(lg, st, i) ==
    IF i > Len(st.kv) \/ st.status # "run" THEN st
    ELSE IF IsResponse(st.kv[i])
         THEN LET d == DumpResponse(st.kv[i])
                  s1 == [st EXCEPT !.dumped = Append(@, st.kv[i])]
              IN  IF d.err = NilErr
                  THEN Loop_part000(lg, [s1 EXCEPT !.kv[i] = Str(d.dump)], i + 2)
                  ELSE Loop_part000(lg, Log(lg, s1, "warn", "Failed to dump HTTP response",
                                            <<Str("error"), d.err>>), i + 2)
         ELSE Loop_part000(lg, st, i + 2)

CheckErr_part000(lg, err, shouldPanic, message, kv) ==
    IF err = NilErr THEN Return(Start(kv), "false")
    ELSE LET s1 == Loop_part000(lg, Start(Pad(kv)), 2)
             s2 == [s1 EXCEPT !.new = <<Str("error"), err>> \o s1.kv]
             s3 == IF shouldPanic
                   THEN Log(lg, s2, "panic", message, s2.new)
                   ELSE Log(lg, s2, "error", message, s2.new)
         IN  Return(s3, "true")

\* what the caller's slice holds afterwards: the loop writes into the slice it
\* was given, which is the caller's backing array unless append had to move it
\* (odd length and no spare capacity)
CallerView_part000(kv, spare, st) ==
    IF Len(kv) % 2 = 0 \/ spare THEN SubSeq(st.kv, 1, Len(kv)) ELSE kv

---------------------------------------------------------------------------
(* CheckErr, copy log (src/log/log.go) *)

\* depth is the number of CheckErr frames on the goroutine's stack; the
\* runtime ends the process when the stack outgrows its limit.
\* The final Panicw/Errorw get the slice as a single argument; zap reports such
\* a dangling argument in a record of its own, which is not modelled here.
RECURSIVE CheckErr_log(_, _, _, _, _, _)
RECURSIVE Loop_log(_, _, _, _)

\* the loop "for i := 0; i < len(keysAndValues); i += 2", i counted from 1
Loop_log(lg, st, i, depth) ==
    IF i > Len(st.kv) \/ st.status # "run" THEN st
    ELSE LET key == st.kv[i]
             value == IF i + 1 <= Len(st.kv) THEN st.kv[i + 1] ELSE MissingValue
         IN  IF IsResponse(value)
             THEN LET d == DumpResponse(value)
                      in == CheckErr_log(lg, d.err, FALSE, "can't dump HTTP response",
                                         <<Str("response"), value>>, depth + 1)
                      s1 == [st EXCEPT !.dumped = Append(@, value) \o in.dumped,
                                       !.recs = @ \o in.recs]
                  IN  CASE in.status = "true" ->
                             Loop_log(lg, [s1 EXCEPT !.new = @ \o <<key, Str(Sprintf_dump(d.err))>>],
                                      i + 2, depth)
                        [] in.status = "false" ->
                             Loop_log(lg, [s1 EXCEPT !.new = @ \o <<key, Str(d.dump)>>],
                                      i + 2, depth)
                        [] OTHER -> [s1 EXCEPT !.status = in.status]
             ELSE Loop_log(lg, [st EXCEPT !.new = @ \o <<key, value>>], i + 2, depth)

CheckErr_log(lg, err, panic, message, kv, depth) ==
    IF err = NilErr THEN Return(Start(kv), "false")
    ELSE IF depth > MaxStack THEN [Start(kv) EXCEPT !.status = "stackoverflow"]
    ELSE LET s1 == Loop_log(lg, Start(kv), 1, depth)
             s2 == [s1 EXCEPT !.new = <<Str("error"), err>> \o @]
             \* the slice is passed as ONE argument: there is no "..." in the call
             s3 == IF panic THEN Log(lg, s2, "panic", message, <<Slice(s2.new)>>) ELSE s2
             s4 == Log(lg, s3, "error", message, <<Slice(s2.new)>>)
         IN  Return(s4, "true")

---------------------------------------------------------------------------
(* Initial state: the package variables as the Go runtime zeroes them *)

Threads == 1..NumThreads

NoCall == [fn |-> "none", err |-> NilErr, flag |-> FALSE, message |-> "", kv |-> <<>>,
           spare |-> FALSE]

Init ==
    /\ logger = NoLogger
    /\ once = [done |-> FALSE, locked |-> FALSE]
    /\ call = NoCall
    /\ result = "none"
    /\ out = <<>>
    /\ dumped = <<>>
    /\ kvAfter = <<>>
    /\ pc = [t \in Threads |-> "idle"]
    /\ arg = [t \in Threads |-> FALSE]
    /\ obs = [t \in Threads |-> "unread"]
    /\ hist = [built |-> 0, failed |-> FALSE, first |-> NoLogger]
    /\ exited = FALSE
    /\ stack = <<>>

---------------------------------------------------------------------------
(* One goroutine using the facade, one whole call per step *)

\* the goroutine is between two facade calls
Alive == result = "none"

\* the caller takes the outcome of its call and goes on to the next one.
\* os.Exit and a stack overflow end the process; a panic unwinds to the caller,
\* which may recover and go on
Continue ==
    /\ result \notin {"none", "running", "exit", "stackoverflow"}
    /\ call' = NoCall
    /\ result' = "none"
    /\ out' = <<>>
    /\ dumped' = <<>>
    /\ kvAfter' = <<>>
    /\ UNCHANGED <<logger, once, pc, arg, obs, hist, exited, stack>>

\* a call ends: what the caller can observe of it
Finish(c, st, after) ==
    /\ call' = c
    /\ result' = st.status
    /\ out' = st.recs
    /\ dumped' = st.dumped
    /\ kvAfter' = after

\* InitLogger run to completion: once.Do runs the function the first time only,
\* and counts a run that panicked as done
InitLogger(isDevelopment, buildOK) ==
    /\ Alive
    /\ LET r == NewLogger(isDevelopment, buildOK)
           c == [NoCall EXCEPT !.fn = "InitLogger", !.flag = isDevelopment]
       IN  IF once.done
           THEN /\ UNCHANGED <<logger, once, hist>>
                /\ Finish(c, Return(Start(<<>>), "returned"), <<>>)
           ELSE /\ logger' = r.logger
                /\ once' = [once EXCEPT !.done = TRUE]
                /\ hist' = [built |-> hist.built + 1,
                            failed |-> hist.failed \/ r.err # NilErr,
                            first |-> IF hist.first = NoLogger THEN r.logger ELSE hist.first]
                /\ Finish(c, Return(Start(<<>>), IF r.err # NilErr THEN "panic" ELSE "returned"),
                          <<>>)
    /\ UNCHANGED <<pc, arg, obs, exited, stack>>

\* Debug, Info, Warn, Error, Fatal, Panic: each forwards to the SugaredLogger
\* method of its level
Leveled(fn, level, msg, kv) ==
    /\ Alive
    /\ Finish([NoCall EXCEPT !.fn = fn, !.message = msg, !.kv = kv],
              Return(Log(logger, Start(kv), level, msg, kv), "returned"), kv)
    /\ UNCHANGED <<logger, once, pc, arg, obs, hist, exited, stack>>

Debug(msg, kv) == Leveled("Debug", "debug", msg, kv)
Info(msg, kv) == Leveled("Info", "info", msg, kv)
Warn(msg, kv) == Leveled("Warn", "warn", msg, kv)
Error(msg, kv) == Leveled("Error", "error", msg, kv)
Fatal(msg, kv) == Leveled("Fatal", "fatal", msg, kv)
Panic(msg, kv) == Leveled("Panic", "panic", msg, kv)

CheckErrCall(fn, err, flag, message, kv, spare) ==
    [fn |-> fn, err |-> err, flag |-> flag, message |-> message, kv |-> kv, spare |-> spare]

Call_golog(err, message, panic) ==
    /\ Alive
    /\ Finish(CheckErrCall("golog", err, panic, message, <<>>, FALSE),
              CheckErr_golog(logger, err, message, panic), <<>>)
    /\ UNCHANGED <<logger, once, pc, arg, obs, hist, exited, stack>>

Call_logtest(err, shouldPanic, message, kv) ==
    /\ Alive
    /\ Finish(CheckErrCall("logtest", err, shouldPanic, message, kv, FALSE),
              CheckErr_logtest(logger, err, shouldPanic, message, kv), kv)
    /\ UNCHANGED <<logger, once, pc, arg, obs, hist, exited, stack>>

\* spare: the caller's slice has capacity beyond its length
Call_part000(err, shouldPanic, message, kv, spare) ==
    /\ Alive
    /\ LET st == CheckErr_part000(logger, err, shouldPanic, message, kv)
       IN  Finish(CheckErrCall("part000", err, shouldPanic, message, kv, spare), st,
                  CallerView_part000(kv, spare, st))
    /\ UNCHANGED <<logger, once, pc, arg, obs, hist, exited, stack>>

Call_log(err, panic, message, kv) ==
    /\ Alive
    /\ Finish(CheckErrCall("log", err, panic, message, kv, FALSE),
              CheckErr_log(logger, err, panic, message, kv, 1), kv)
    /\ UNCHANGED <<logger, once, pc, arg, obs, hist, exited, stack>>

Next ==
    \/ \E d \in BOOLEAN, b \in BOOLEAN : InitLogger(d, b)
    \/ \E m \in Msgs, kv \in KVSeqs : Debug(m, kv)
    \/ \E m \in Msgs, kv \in KVSeqs : Info(m, kv)
    \/ \E m \in Msgs, kv \in KVSeqs : Warn(m, kv)
    \/ \E m \in Msgs, kv \in KVSeqs : Error(m, kv)
    \/ \E m \in Msgs, kv \in KVSeqs : Fatal(m, kv)
    \/ \E m \in Msgs, kv \in KVSeqs : Panic(m, kv)
    \/ \E e \in Errs, m \in Msgs, p \in BOOLEAN : Call_golog(e, m, p)
    \/ \E e \in Errs, m \in Msgs, p \in BOOLEAN, kv \in KVSeqs : Call_logtest(e, p, m, kv)
    \/ \E e \in Errs, m \in Msgs, p \in BOOLEAN, kv \in KVSeqs, sp \in BOOLEAN :
           Call_part000(e, p, m, kv, sp)
    \/ \E e \in Errs, m \in Msgs, p \in BOOLEAN, kv \in KVSeqs : Call_log(e, p, m, kv)
    \/ Continue

Spec == Init /\ [][Next]_vars

---------------------------------------------------------------------------
(* Goroutines racing on first use: InitLogger step by step *)

\* pc of a goroutine
\*   "idle"       not in a facade call, none made yet or recovered from a panic
\*   "doSlow"     in once.Do, waiting for the Once's mutex
\*   "construct"  in the function given to once.Do, before NewLogger
\*   "unlock"     the function returned; the deferred done.Store(1) and Unlock
\*                are still to run
\*   "panicking"  the function panicked; the same deferred calls are to run
\*   "returned"   InitLogger returned normally
\*   "panicked"   InitLogger panicked out of the goroutine's call
\*   "faulted"    a leveled call dereferenced a nil handle
AtRest(t) == pc[t] \in {"idle", "returned"}

\* initialization has begun: the function given to once.Do has been entered
Begun == once.done \/ \E t \in Threads : pc[t] \in {"construct", "unlock", "panicking"}

\* plausible slip: no one-time guard, every call runs the function
OnceMustRun_Always(o) == TRUE

\* sync.Once: the function runs only while done is unset
OnceMustRun(o) == ~o.done

\* InitLogger is called: once.Do's fast path returns when done is set
InitLogger_Call(t, isDevelopment) ==
    /\ ~exited /\ AtRest(t)
    /\ arg' = [arg EXCEPT ![t] = isDevelopment]
    /\ pc' = [pc EXCEPT ![t] = IF OnceMustRun(once) THEN "doSlow" ELSE "returned"]
    /\ UNCHANGED <<logger, once, call, result, out, dumped, kvAfter, obs, hist, exited, stack>>

\* doSlow takes the mutex and looks at done again
Once_Lock(t) ==
    /\ ~exited /\ pc[t] = "doSlow" /\ ~once.locked
    /\ IF OnceMustRun(once)
       THEN /\ once' = [once EXCEPT !.locked = TRUE]
            /\ pc' = [pc EXCEPT ![t] = "construct"]
       ELSE /\ pc' = [pc EXCEPT ![t] = "returned"]
            /\ UNCHANGED once
    /\ UNCHANGED <<logger, call, result, out, dumped, kvAfter, arg, obs, hist, exited, stack>>

\* "logger, err = NewLogger(isDevelopment)", then the panic if err is not nil
Construct(t, buildOK) ==
    /\ ~exited /\ pc[t] = "construct"
    /\ LET r == NewLogger(arg[t], buildOK)
       IN  /\ logger' = r.logger
           /\ hist' = [built |-> hist.built + 1,
                       failed |-> hist.failed \/ r.err # NilErr,
                       first |-> IF hist.first = NoLogger THEN r.logger ELSE hist.first]
           /\ pc' = [pc EXCEPT ![t] = IF r.err # NilErr THEN "panicking" ELSE "unlock"]
    /\ UNCHANGED <<once, call, result, out, dumped, kvAfter, arg, obs, exited, stack>>

\* the deferred calls of doSlow run, on return and on panic alike
Once_Done(t) ==
    /\ ~exited /\ pc[t] \in {"unlock", "panicking"}
    /\ once' = [done |-> TRUE, locked |-> FALSE]
    /\ pc' = [pc EXCEPT ![t] = IF pc[t] = "unlock" THEN "returned" ELSE "panicked"]
    /\ UNCHANGED <<logger, call, result, out, dumped, kvAfter, arg, obs, hist, exited, stack>>

\* GetLogger returns the package variable as it is, with no synchronization
GetLogger(t) ==
    /\ ~exited /\ AtRest(t)
    /\ obs' = [obs EXCEPT ![t] = IF Begun THEN logger ELSE "early-" \o logger]
    /\ UNCHANGED <<logger, once, call, result, out, dumped, kvAfter, pc, arg, hist, exited, stack>>

\* a leveled call: GetLogger().sugaredLogger.<Level>w(...), which faults on a
\* nil handle
Leveled_Call(t) ==
    /\ ~exited /\ AtRest(t)
    /\ obs' = [obs EXCEPT ![t] = IF Begun THEN logger ELSE "early-" \o logger]
    /\ pc' = [pc EXCEPT ![t] = IF logger = NoLogger THEN "faulted" ELSE pc[t]]
    /\ UNCHANGED <<logger, once, call, result, out, dumped, kvAfter, arg, hist, exited, stack>>

\* the goroutine's caller recovers from the panic
Recover(t) ==
    /\ ~exited /\ pc[t] \in {"panicked", "faulted"}
    /\ pc' = [pc EXCEPT ![t] = "idle"]
    /\ UNCHANGED <<logger, once, call, result, out, dumped, kvAfter, arg, obs, hist, exited, stack>>

\* nobody recovers: the runtime prints the panic and exits the process, while
\* the other goroutines are still running
Exit ==
    /\ ~exited /\ \E t \in Threads : pc[t] \in {"panicked", "faulted"}
    /\ exited' = TRUE
    /\ UNCHANGED <<logger, once, call, result, out, dumped, kvAfter, pc, arg, obs, hist, stack>>

NextInit ==
    \/ \E t \in Threads, d \in BOOLEAN : InitLogger_Call(t, d)
    \/ \E t \in Threads : Once_Lock(t)
    \/ \E t \in Threads, b \in BOOLEAN : Construct(t, b)
    \/ \E t \in Threads : Once_Done(t)
    \/ \E t \in Threads : GetLogger(t)
    \/ \E t \in Threads : Leveled_Call(t)
    \/ \E t \in Threads : Recover(t)
    \/ Exit

SpecInit == Init /\ [][NextInit]_vars

---------------------------------------------------------------------------
(* CheckErr of copy log (src/log/log.go), one loop iteration per step, with
   the goroutine's stack of CheckErr frames *)

\* a frame: the arguments, the loop index i (counted from 1) and newKeysAndValues
Frame(err, panic, message, kv) ==
    [err |-> err, panic |-> panic, message |-> message, kv |-> kv, i |-> 1, new |-> <<>>]

Top == stack[Len(stack)]
SetTop(f) == [stack EXCEPT ![Len(stack)] = f]
Pop == SubSeq(stack, 1, Len(stack) - 1)

\* the value paired with key i of the top frame
TopValue == IF Top.i + 1 <= Len(Top.kv) THEN Top.kv[Top.i + 1] ELSE MissingValue

\* a caller calls CheckErr
Log_Enter(err, panic, message, kv) ==
    /\ Alive /\ stack = <<>>
    /\ call' = CheckErrCall("log", err, panic, message, kv, FALSE)
    /\ kvAfter' = kv
    /\ IF err = NilErr
       THEN result' = "false" /\ UNCHANGED stack
       ELSE result' = "running" /\ stack' = <<Frame(err, panic, message, kv)>>
    /\ UNCHANGED <<logger, once, out, dumped, pc, arg, obs, hist, exited>>

\* one iteration of the loop on a pair whose value is no response, or a
\* response whose dump succeeds (the nested CheckErr(nil, ...) returns false)
Log_Pair ==
    /\ result = "running" /\ stack # <<>> /\ Top.i <= Len(Top.kv)
    /\ LET key == Top.kv[Top.i]
           value == TopValue
           d == DumpResponse(value)
       IN  IF IsResponse(value)
           THEN /\ d.err = NilErr
                /\ dumped' = Append(dumped, value)
                /\ stack' = SetTop([Top EXCEPT !.new = @ \o <<key, Str(d.dump)>>, !.i = @ + 2])
           ELSE /\ dumped' = dumped
                /\ stack' = SetTop([Top EXCEPT !.new = @ \o <<key, value>>, !.i = @ + 2])
    /\ UNCHANGED <<logger, once, call, result, out, kvAfter, pc, arg, obs, hist, exited>>

\* the dump of a response fails: CheckErr(err, false, "can't dump HTTP
\* response", "response", resp) is entered, or the stack is exhausted
Log_DumpFails ==
    /\ result = "running" /\ stack # <<>> /\ Top.i <= Len(Top.kv)
    /\ IsResponse(TopValue) /\ DumpResponse(TopValue).err # NilErr
    /\ dumped' = Append(dumped, TopValue)
    /\ IF Len(stack) < MaxStack
       THEN /\ stack' = Append(stack, Frame(DumpResponse(TopValue).err, FALSE,
                                            "can't dump HTTP response",
                                            <<Str("response"), TopValue>>))
            /\ UNCHANGED result
       ELSE /\ result' = "stackoverflow"
            /\ stack' = <<>>
    /\ UNCHANGED <<logger, once, call, out, kvAfter, pc, arg, obs, hist, exited>>

\* the loop is over: the frame logs and returns true to its caller, which
\* stores the failure text for the key it was working on
Log_Return ==
    /\ result = "running" /\ stack # <<>> /\ Top.i > Len(Top.kv)
    /\ LET final == <<Str("error"), Top.err>> \o Top.new
           s0 == [Start(Top.kv) EXCEPT !.recs = out]
           s1 == IF Top.panic THEN Log(logger, s0, "panic", Top.message, <<Slice(final)>>) ELSE s0
           s2 == Return(Log(logger, s1, "error", Top.message, <<Slice(final)>>), "true")
       IN  /\ out' = s2.recs
           /\ IF s2.status = "true" /\ Len(stack) > 1
              THEN LET parent == stack[Len(stack) - 1]
                   IN  /\ stack' = [Pop EXCEPT ![Len(stack) - 1] =
                                      [parent EXCEPT
                                         !.new = @ \o <<parent.kv[parent.i],
                                                        Str(Sprintf_dump(Top.err))>>,
                                         !.i = @ + 2]]
                       /\ UNCHANGED result
              ELSE /\ stack' = <<>>
                   /\ result' = s2.status
    /\ UNCHANGED <<logger, once, call, dumped, kvAfter, pc, arg, obs, hist, exited>>

NextStack ==
    \/ \E d \in BOOLEAN, b \in BOOLEAN : InitLogger(d, b)
    \/ \E e \in Errs, m \in Msgs, p \in BOOLEAN, kv \in KVSeqs : Log_Enter(e, p, m, kv)
    \/ Log_Pair
    \/ Log_DumpFails
    \/ Log_Return
    \/ Continue

SpecStack == Init /\ [][NextStack]_vars

---------------------------------------------------------------------------
(* Vocabulary of the properties *)

CheckErrCopies == {"golog", "log", "part000", "logtest"}
\* the copies that take key/value context
KVCopies == {"log", "part000", "logtest"}

\* a CheckErr call with a non-nil error on a constructed logger has ended
Checked == call.fn \in CheckErrCopies /\ call.err # NilErr /\ logger # NoLogger
CheckedKV == Checked /\ call.fn \in KVCopies

RecsAt(levels) == SelectSeq(out, LAMBDA r : r.level \in levels)

\* the record carries the field key = value
HasField(rec, key, value) ==
    \E i \in DOMAIN Fields(rec.args) : Fields(rec.args)[i] = <<key, value>>

\* the record CheckErr emits for the error itself: the last one it writes
FinalRec == out[Len(out)]

\* positions of the caller's sequence that hold the value of a pair
ValuePositions == {i \in 1..Len(call.kv) : i % 2 = 0}

---------------------------------------------------------------------------
(* C1: a CheckErr call with a non-nil error and the termination flag off
   returns true and writes exactly one error-level record, and that record
   holds the error's text (as the field "error" in the key/value copies, in
   the formatted message in copy golog). *)
C1_OneErrorRecord ==
    (Checked /\ ~call.flag) =>
        /\ result = "true"
        /\ Len(RecsAt({"error"})) = 1
        /\ LET r == RecsAt({"error"})[1]
           IN  IF call.fn = "golog"
               THEN r.msg = call.message \o ": " \o call.err.s
               ELSE HasField(r, Str("error"), call.err)

(* C2: with a nil error CheckErr returns false and does nothing else, whatever
   the flag, the message and the context are: no record is written, no
   response is dumped, the caller's slice is as it was, the call returns. *)
C2_NilNoEffect ==
    (call.fn \in CheckErrCopies /\ call.err = NilErr) =>
        /\ result = "false"
        /\ out = <<>>
        /\ dumped = <<>>
        /\ kvAfter = call.kv

C2_Witness ==
    /\ call.fn = "part000" /\ call.err = NilErr /\ call.flag
    /\ \E i \in ValuePositions : IsResponse(call.kv[i])
    /\ logger = "prod"
    /\ result = "false"

(* C3: with a non-nil error and the termination flag set, in development and
   in production, CheckErr writes the message at error level and also at a
   panic/fatal level, and the call ends in a panic or an exit: it never
   returns like an ordinary log call. *)
C3_ErrorAndPanicTerminate ==
    (Checked /\ call.flag) =>
        /\ Len(RecsAt({"error"})) >= 1
        /\ Len(RecsAt({"dpanic", "panic", "fatal"})) >= 1
        /\ result \in {"panic", "exit"}

(* C4: when a context value is a response whose dump fails, the failure is
   written at warning level, not at error level, the call still ends as it
   would have, and the field of that key in the final record is the text
   describing the failure: not the response object, not a dump. *)
C4_DumpFailureWarned ==
    CheckedKV =>
        \A i \in ValuePositions :
            (IsResponse(call.kv[i]) /\ ~call.kv[i].ok) =>
                /\ result = (IF call.flag THEN "panic" ELSE "true")
                /\ Len(RecsAt({"warn"})) >= 1
                /\ \A j \in 1..Len(out) : out[j].level = "error" => out[j].msg = call.message
                /\ HasField(FinalRec, call.kv[i - 1],
                            Str("Error dumping response: " \o DumpResponse(call.kv[i]).err.s))

(* C5: when a context value is a response whose dump succeeds, the field of
   its key in the emitted record is the text of the dump, and every pair whose
   value is no response is emitted with its key and value as given. *)
C5_DumpInRecord ==
    (CheckedKV /\ result \in {"true", "panic"}) =>
        \A i \in ValuePositions :
            LET v == call.kv[i]
            IN  /\ (IsResponse(v) /\ v.ok) =>
                       HasField(FinalRec, call.kv[i - 1], Str(DumpResponse(v).dump))
                /\ ~IsResponse(v) => HasField(FinalRec, call.kv[i - 1], v)

(* C6: for a context sequence of any length the arguments CheckErr hands to
   the logger are an even number of values, alternating key and value, that
   begin with "error", err; the last key of an odd-length sequence is paired
   with "<missing value>". *)
C6_WellFormedArgs ==
    (CheckedKV /\ result \in {"true", "panic"}) =>
        LET a == FinalRec.args
            n == Len(call.kv)
        IN  /\ Len(a) % 2 = 0
            /\ Len(a) = 2 + n + (n % 2)
            /\ a[1] = Str("error") /\ a[2] = call.err
            /\ \A i \in 1..n : i % 2 = 1 => a[2 + i] = call.kv[i]
            /\ n % 2 = 1 => a[Len(a)] = MissingValue

(* C9: a record is written iff its level is at or above the level of the
   logger's mode: a development logger writes Debug records; a production
   logger drops Debug records and writes Info, Warn and Error records with
   their message and key/value arguments. *)
C9_LevelThreshold ==
    (call.fn \in {"Debug", "Info", "Warn", "Error"} /\ logger # NoLogger) =>
        LET level == CASE call.fn = "Debug" -> "debug"
                       [] call.fn = "Info" -> "info"
                       [] call.fn = "Warn" -> "warn"
                       [] call.fn = "Error" -> "error"
        IN  IF logger = "prod" /\ call.fn = "Debug"
            THEN out = <<>>
            ELSE out = <<[level |-> level, msg |-> call.message, args |-> call.kv]>>

C9_Witness ==
    /\ logger = "prod" /\ call.fn = "Debug" /\ Len(call.kv) = 2
    /\ out = <<>> /\ result = "returned"

---------------------------------------------------------------------------
(* Properties of the racing goroutines *)

(* C7, as claimed: NewLogger runs exactly once, no caller reads an
   unconstructed handle once initialization has begun, and a published handle
   is never replaced. *)
C7_NoNilAfterBegun ==
    /\ hist.built <= 1
    /\ \A t \in Threads : pc[t] = "returned" => hist.built = 1
    /\ \A t \in Threads : ~hist.failed => obs[t] # NoLogger
    /\ logger # NoLogger => logger = hist.first

(* C7, amended: NewLogger runs at most once, and has run before any InitLogger
   call returns; an InitLogger call returns only after that run is complete
   (once.done), with the handle published if the run succeeded; a published
   handle is never replaced.  GetLogger and the leveled calls stand outside the
   guard. *)
C7_OnceOnly ==
    /\ hist.built <= 1
    /\ \A t \in Threads :
           pc[t] = "returned" =>
               /\ once.done /\ hist.built = 1
               /\ ~hist.failed => logger # NoLogger
    /\ logger # NoLogger => logger = hist.first

C7_Witness ==
    \E t, u \in Threads :
        /\ pc[t] = "returned" /\ pc[u] = "returned"
        /\ arg[t] # arg[u]
        /\ obs[u] = NoLogger
        /\ logger # NoLogger /\ hist.built = 1

(* C8: when the construction fails InitLogger panics, the handle stays nil,
   and in no state has an InitLogger call returned normally while the handle
   is nil. *)
C8_InitFatal ==
    /\ hist.failed => logger = NoLogger
    /\ \A t \in Threads : (pc[t] = "panicking" \/ pc[t] = "panicked") => hist.failed
    /\ \A t \in Threads : pc[t] = "returned" => logger # NoLogger

---------------------------------------------------------------------------
(* Properties of the stack of copy log *)

(* The two models of copy log agree: a call run step by step on the stack ends
   as the same call run whole does. *)
StackAgreesWithWhole ==
    (call.fn = "log" /\ result \notin {"none", "running"}) =>
        LET st == CheckErr_log(logger, call.err, call.flag, call.message, call.kv, 1)
        IN  result = st.status /\ out = st.recs /\ dumped = st.dumped

(* C10: every CheckErr call terminates; in particular the handling of a failed
   dump never re-enters CheckErr with the same failing response again and
   again: no frame on the stack is the same call as a frame waiting below it. *)
C10_NoReentry ==
    \A i, j \in 1..Len(stack) :
        i < j =>
            ~ /\ stack[i].err = stack[j].err
              /\ stack[i].panic = stack[j].panic
              /\ stack[i].message = stack[j].message
              /\ stack[i].kv = stack[j].kv

---------------------------------------------------------------------------
(* Properties of the caller's slice *)

(* C11: CheckErr never modifies the caller's context sequence: after every
   call each element of the slice the caller passed holds the value it held
   before, a response included; the processed pairs live in a separate slice. *)
C11_CallerSliceUntouched ==
    (CheckedKV /\ result = "true") => kvAfter = call.kv

---------------------------------------------------------------------------
(* Properties of the handle *)

LeveledFns == {"Debug", "Info", "Warn", "Error", "Fatal", "Panic"}

\* some InitLogger call has completed a successful construction
Constructed == hist.built >= 1 /\ ~hist.failed

\* a call that uses the logger has ended: a leveled call, or CheckErr with a
\* non-nil error
UsedLogger ==
    \/ call.fn \in LeveledFns
    \/ call.fn \in CheckErrCopies /\ call.err # NilErr

(* C12: the handle is non-nil iff some InitLogger call has completed a
   successful construction; nothing else constructs it, so a leveled call, or
   CheckErr with a non-nil error, made while the handle is nil dereferences
   the nil handle and faults, and writes no record. *)
C12_NilHandleFaults ==
    /\ logger # NoLogger <=> Constructed
    /\ (UsedLogger /\ logger = NoLogger) => (result = "nilderef" /\ out = <<>>)

====
